---- MODULE Spec2Model ----
(***************************************************************************)
(* Verification model of hoolamike: the directive dispatcher               *)
(* (install_modlist/directives.rs), the nested-archive batch handler       *)
(* (directives/nested_archive_directives.rs) and the concurrent archive    *)
(* preheater (compression/preheated_archive.rs).                           *)
(*                                                                         *)
(* The specifications of this module share one set of variables; each one  *)
(* exercises its own group and leaves the others idle:                     *)
(*   Spec        - DirectivesHandler::handle_directives                    *)
(*   SpecNested  - handle_nested_archive_directives                        *)
(*   SpecPreheat - PreheatedArchive::from_archive_concurrent               *)
(*   SpecArchive - ProcessArchive::get_many_handles of the zip, 7z and     *)
(*                 wrapped 7z adapters                                     *)
(*   SpecHandler - the handle function of one directive handler            *)
(*   SpecInstall - the install command: main and install_modlist           *)
(*   SpecHashPath - an ArchiveHashPath read from the manifest              *)
(*   SpecProgress - the ProgressMap and the io hooks of hoola-progress  *)
(*   SpecWorker - spawn_rayon                                            *)
(*   SpecCdn - the chunked download from the Wabbajack CDN               *)
(***************************************************************************)
EXTENDS Integers, Sequences, FiniteSets, TLC

-----------------------------------------------------------------------------
(* Bounds of the model *)

\* longest manifest drawn from all directive kinds
MaxDirectives == 3

-----------------------------------------------------------------------------
(* Directive kinds and their priority: DirectiveKind::priority *)

Kinds ==
    {"InlineFile", "FromArchive", "PatchedFromArchive", "RemappedInlineFile", "TransformedTexture", "CreateBSA"}

priorityNoBsaLast(kind) ==
    CASE kind = "InlineFile" -> 10
      [] kind = "FromArchive" -> 11
      [] kind = "PatchedFromArchive" -> 12
      [] kind = "RemappedInlineFile" -> 13
      [] kind = "TransformedTexture" -> 240
      [] kind = "CreateBSA" -> 9

priority(kind) ==
    CASE kind = "InlineFile" -> 10
      [] kind = "FromArchive" -> 11
      [] kind = "PatchedFromArchive" -> 12
      [] kind = "RemappedInlineFile" -> 13
      [] kind = "TransformedTexture" -> 240
      [] kind = "CreateBSA" -> 250

Max(a, b) == IF a >= b THEN a ELSE b

\* usize::saturating_sub
SaturatingSub(a, b) == IF a >= b THEN a - b ELSE 0

\* fn concurrency(): num_cpus.div(10).mul(8).saturating_sub(1).max(1) in a
\* release build, 1 under debug_assertions
concurrency(numCpus, debugBuild) ==
    IF debugBuild THEN 1 ELSE Max(SaturatingSub((numCpus \div 10) * 8, 1), 1)

\* machines the model runs on: fewer than ten CPUs, and ten CPUs
CpuChoices == {4, 10}

\* a manifest longer than the release worker count of a ten-CPU machine, in
\* reverse priority order
LongManifest ==
    << "CreateBSA", "TransformedTexture", "RemappedInlineFile", "PatchedFromArchive",
       "FromArchive", "InlineFile", "FromArchive", "InlineFile" >>

RECURSIVE SeqsUpTo(_, _)
SeqsUpTo(S, n) ==
    IF n = 0 THEN {<< >>}
    ELSE LET shorter == SeqsUpTo(S, n - 1)
         IN  shorter \cup {Append(s, x) : s \in {t \in shorter : Len(t) = n - 1}, x \in S}

Manifests == (SeqsUpTo(Kinds, MaxDirectives) \ {<< >>}) \cup {LongManifest}

-----------------------------------------------------------------------------
(* State *)

VARIABLES
    cpus,       \* num_cpus::get()
    debug,      \* cfg(debug_assertions)
    \* -- handle_directives
    manifest,   \* the directives handed to handle_directives, in manifest order (their kinds)
    queue,      \* the directives after sort_unstable_by_key: indices into manifest
    dpc,        \* position of handle_directives: "idle", "start", "running", "returned"
    taken,      \* how many directives try_buffered has pulled from the stream
    st,         \* per directive: state of its handler future
    result,     \* the TotalResult returned: "none", "Ok", "Err"
    errors,     \* the directives whose error is in the returned Err(vec![..])
    pb,         \* pb.inc calls made by try_for_each
    \* -- handle_nested_archive_directives
    summary,    \* download_summary: the root hashes that have a local file
    ndirs,      \* the ArchivePathDirectives: their archive hash paths (root, path)
    nkinds,     \* the ArchivePathDirectives: their kinds
    npc,        \* position: "idle", "start", "iterating", "done"
    preheat,    \* preheat_task: "none", "ok", "err"
    extracts,   \* per (root, path): extractions performed by the archive adapter
    store,      \* the keys held by the PreheatedArchiveHashPaths
    got,        \* per directive: the key whose extracted file its handler was given
    out,        \* the items the returned iterator has produced
    late,       \* what the handlers extracted themselves: << "source", key >>, << "patch", directive >>
    \* -- PreheatedArchive::from_archive_concurrent
    ppc,        \* position: "idle", "start", "listing", "chunks", "collected", "failed", "dropped"
    npaths,     \* number of non-directory entries of the archive
    chunkSize,  \* chunk_size
    chunks,     \* paths.chunks(chunk_size)
    cs,         \* per chunk: "pending", "open", "ok", "err", "skipped"
    entry,      \* per chunk: entries of the chunk extracted so far
    writing,    \* per chunk: a temp file for its next entry is being written
    opens,      \* times the archive file was opened
    extracted,  \* per path: times the entry was extracted
    disk,       \* the extraction temp files that exist: << chunk, path >>
    paths,      \* PreheatedArchive.paths: path -> temp file
    \* -- ProcessArchive::get_many_handles
    adapter,    \* ArchiveHandleKind of the archive: "zip", "sevenz", "wrapped"
    listing,    \* the non-directory entries of the archive, in listing order (their names)
    blockOf,    \* 7z: per entry, the index of its solid block (NoBlock: no index)
    requested,  \* the paths handed to get_many_handles
    apc,        \* position: "idle", "start", "resolved", "extract", "returned"
    resolved,   \* the (request, entry) pairs the name lookup produced
    warned,     \* the requests for which "found case-insensitive name" was logged
    failedAt,   \* the request the name lookup failed on (0: none)
    groups,     \* 7z: the requested entries grouped by block, in block order
    cur,        \* 7z: number of groups whose block decoder has been created
    blockOpen,  \* 7z: for_each_entries of the current group is running
    cont,       \* 7z: the last value the for_each_entries callback returned
    pos,        \* entries visited in the open block (zip: requests extracted)
    pending,    \* 7z: the lookup of the open block: entries still to be found
    decodes,    \* 7z: per block, the BlockDecoders created for it
    drained,    \* 7z: entries copied into io::empty()
    written,    \* entries whose bytes were written to a temp file
    tempfiles,  \* the temp files of this call that exist
    handles,    \* the handles collected for the caller
    aresult,    \* the Result returned: "none", "Ok", "Err"
    mismatch,   \* a copy ended with a byte count other than the declared size
    \* -- the handler of one directive
    hkind,      \* DirectiveKind of the directive
    ext,        \* extension of the directive's destination path `to`
    existing,   \* the destination exists already with the directive's hash
    srcSizeOk,  \* the bytes the handler is given to write have the declared size
    srcHashOk,  \* the bytes the handler is given to write have the declared hash
    hpc,        \* position: "idle", "start", "create", "locked", "extracting", "copy", "done"
    lockHeld,   \* a guard of the WabbajackFileHandle mutex is alive
    io,         \* an entry is being extracted from the wabbajack archive
    wroteDest,  \* the handler wrote bytes to the destination
    checks,     \* the validations those bytes were passed through
    hresult,    \* the Result returned: "none", "Ok", "Err"
    \* -- the install command
    skipVerify, \* DebugHelpers.skip_verify_and_downloads
    afile,      \* per archive of the modlist: the file at its download_output_path
    how,        \* per archive: how it came into the summary: "none", "verified", "fetched", "unchecked"
    rsummary,   \* the archives (root hashes) of the download summary
    synced,     \* the archives sync_downloads has dealt with
    failures,   \* the errors install_modlist returns
    printed,    \* the lines main printed for them
    reported,   \* the number of errors main reported (-1: none reported)
    exitCode,   \* -1 while the process runs, then its exit code
    rpc,        \* position: "idle", "start", "syncing", "directives", "reporting", "exited"
    \* -- an ArchiveHashPath of the manifest
    json,       \* the JSON array of strings the manifest holds for it
    jresult,    \* what deserialize returned: "idle", "none", "Ok", "Err"
    ahp,        \* the ArchiveHashPath values that exist
    sjson,      \* the array of strings serialize gave for the value, << >> before
    back,       \* the values deserialized from sjson
    \* -- the progress map of hoola-progress
    progress,   \* ProgressMap.progress: span path -> [kind, total, current]
    finished_pending, \* ProgressMap.finished_pending
    removed,    \* the span paths handle has removed from the map
    live,       \* the span paths of the ProgressCommunicators that exist
    nextId,     \* NEXT_SPAN_ID
    kindOf,     \* the spans started by span_raw: span path -> kind
    rx,         \* the Receiver of the channel exists
    ioCount,    \* reads and writes made through an IoHook
    inner,      \* what the last read or write of the wrapped reader or writer returned (n = -1: none yet)
    outer,      \* what the IoHook returned for it
    \* -- spawn_rayon
    task,       \* per task: "none", "queued", "sent", "unsent", "panicked"
    chan,       \* per task: the value in the oneshot channel: "empty", "Ok", "Err"
    fut,        \* per task: the future: "none", "pending", "Ok", "Err", "crashed", "dropped"
    deliveries, \* per task: results the future has resolved with
    aborted,    \* the process was aborted
    \* -- download_wabbajack_cdn
    chunk_count,            \* the number of source urls of the download
    download_concurrency,   \* the size of the buffer_unordered window
    next_idx,       \* the index of the next part the stream hands out
    in_flight,      \* the parts being downloaded
    parts,          \* the parts collected so far (their indices), then sorted
    completion,     \* the order the part downloads completed in
    output_file,    \* the parts copied to the output file, in write order
    cdn_pc          \* "downloading", "merging", "done", "download_failed", "merge_failed"

envvars == << cpus, debug >>
dvars == << manifest, queue, dpc, taken, st, result, errors, pb >>
nvars == << summary, ndirs, nkinds, npc, preheat, extracts, store, got, out, late >>
pvars == << ppc, npaths, chunkSize, chunks, cs, entry, writing, opens, extracted, disk, paths >>
avars ==
    << adapter, listing, blockOf, requested, apc, resolved, warned, failedAt, groups, cur, blockOpen,
       cont, pos, pending, decodes, drained, written, tempfiles, handles, aresult, mismatch >>
hvars == << hkind, ext, existing, srcSizeOk, srcHashOk, hpc, lockHeld, io, wroteDest, checks, hresult >>
rvars == << skipVerify, afile, how, rsummary, synced, failures, printed, reported, exitCode, rpc >>
jvars == << json, jresult, ahp, sjson, back >>
gvars == << progress, finished_pending, removed, live, nextId, kindOf, rx, ioCount, inner, outer >>
wvars == << task, chan, fut, deliveries, aborted >>
cvars == << chunk_count, download_concurrency, next_idx, in_flight, parts, completion, output_file, cdn_pc >>
vars == << envvars, dvars, nvars, pvars, avars, hvars, rvars, jvars, gvars, wvars, cvars >>

\* the groups a specification leaves alone
otherThanDispatcher == << nvars, pvars, avars, hvars, rvars, jvars, gvars, wvars, cvars >>
otherThanNested == << dvars, pvars, avars, hvars, rvars, jvars, gvars, wvars, cvars >>
otherThanPreheat == << dvars, nvars, avars, hvars, rvars, jvars, gvars, wvars, cvars >>
otherThanArchive == << dvars, nvars, pvars, hvars, rvars, jvars, gvars, wvars, cvars >>
otherThanHandler == << dvars, nvars, pvars, avars, rvars, jvars, gvars, wvars, cvars >>
otherThanInstall == << dvars, nvars, pvars, avars, hvars, jvars, gvars, wvars, cvars >>
otherThanHashPath == << dvars, nvars, pvars, avars, hvars, rvars, gvars, wvars, cvars >>
otherThanProgress == << dvars, nvars, pvars, avars, hvars, rvars, jvars, wvars, cvars >>
otherThanWorker == << dvars, nvars, pvars, avars, hvars, rvars, jvars, gvars, cvars >>
otherThanCdn == << dvars, nvars, pvars, avars, hvars, rvars, jvars, gvars, wvars >>

-----------------------------------------------------------------------------
(* handle_directives *)

Directives == 1 .. Len(manifest)

\* every order sort_by_key can leave the directives in: non-decreasing key,
\* equal keys in any relative order (the sort is unstable)
RECURSIVE SortedOrders(_, _)
SortedOrders(m, S) ==
    IF S = {} THEN {<< >>}
    ELSE LET least == {i \in S : \A j \in S : priority(m[i]) <= priority(m[j])}
         IN  UNION {{<< i >> \o rest : rest \in SortedOrders(m, S \ {i})} : i \in least}

sort_unstable_by_key(m, S) == SortedOrders(m, S)

\* the futures try_buffered holds: pulled from the stream, result not yet yielded
InWindow == {i \in Directives : st[i] \in {"running", "ok", "err"}}

\* the handlers that are executing right now
InProgress == {i \in Directives : st[i] = "running"}

PositionOf(i) == CHOOSE k \in 1 .. Len(queue) : queue[k] = i

\* FuturesOrdered yields in stream order: the oldest future of the window
WindowHead == CHOOSE i \in InWindow : \A j \in InWindow : PositionOf(i) <= PositionOf(j)

WindowHasRoomOffByOne(inFlight, limit) == inFlight <= limit

\* try_buffered(n): pulls the next future while fewer than n are held
WindowHasRoom(inFlight, limit) == inFlight < limit

StreamExhausted == taken = Len(queue)

\* try_buffered fills its window before it polls the futures it holds
WindowFilled == StreamExhausted \/ ~WindowHasRoom(Cardinality(InWindow), concurrency(cpus, debug))

\* the parts of the state a specification does not exercise
DispatcherIdle ==
    /\ manifest = << >>
    /\ queue = << >>
    /\ dpc = "idle"
    /\ taken = 0
    /\ st = << >>
    /\ result = "none"
    /\ errors = {}
    /\ pb = 0

NestedIdle ==
    /\ summary = {}
    /\ ndirs = << >>
    /\ npc = "idle"
    /\ preheat = "none"
    /\ extracts = << >>
    /\ store = {}
    /\ got = << >>
    /\ out = << >>
    /\ nkinds = << >>
    /\ late = {}

PreheatIdle ==
    /\ ppc = "idle"
    /\ npaths = 0
    /\ chunkSize = 1
    /\ chunks = << >>
    /\ cs = << >>
    /\ entry = << >>
    /\ writing = << >>
    /\ opens = 0
    /\ extracted = << >>
    /\ disk = {}
    /\ paths = << >>

ArchiveIdle ==
    /\ adapter = "none"
    /\ listing = << >>
    /\ blockOf = << >>
    /\ requested = << >>
    /\ apc = "idle"
    /\ resolved = << >>
    /\ warned = {}
    /\ failedAt = 0
    /\ groups = << >>
    /\ cur = 0
    /\ blockOpen = FALSE
    /\ cont = FALSE
    /\ pos = 0
    /\ pending = {}
    /\ decodes = << >>
    /\ drained = {}
    /\ written = {}
    /\ tempfiles = {}
    /\ handles = << >>
    /\ aresult = "none"
    /\ mismatch = FALSE

HandlerIdle ==
    /\ hkind = "none"
    /\ ext = << >>
    /\ existing = FALSE
    /\ srcSizeOk = FALSE
    /\ srcHashOk = FALSE
    /\ hpc = "idle"
    /\ lockHeld = FALSE
    /\ io = FALSE
    /\ wroteDest = FALSE
    /\ checks = {}
    /\ hresult = "none"

InstallIdle ==
    /\ skipVerify = FALSE
    /\ afile = << >>
    /\ how = << >>
    /\ rsummary = {}
    /\ synced = {}
    /\ failures = << >>
    /\ printed = << >>
    /\ reported = -1
    /\ exitCode = -1
    /\ rpc = "idle"

HashPathIdle ==
    /\ json = << >>
    /\ jresult = "idle"
    /\ ahp = {}
    /\ sjson = << >>
    /\ back = {}

ProgressIdle ==
    /\ progress = << >>
    /\ finished_pending = {}
    /\ removed = {}
    /\ live = {}
    /\ nextId = 0
    /\ kindOf = << >>
    /\ rx = FALSE
    /\ ioCount = 0
    /\ inner = [ok |-> FALSE, n |-> -1]
    /\ outer = [ok |-> FALSE, n |-> -1]

WorkerIdle ==
    /\ task = << >>
    /\ chan = << >>
    /\ fut = << >>
    /\ deliveries = << >>
    /\ aborted = FALSE

CdnIdle ==
    /\ chunk_count = 0
    /\ download_concurrency = 0
    /\ next_idx = 0
    /\ in_flight = {}
    /\ parts = << >>
    /\ completion = << >>
    /\ output_file = << >>
    /\ cdn_pc = "idle"

\* cpus and debug in the specifications that do not read them
EnvIdle ==
    /\ cpus = 0
    /\ debug = FALSE

Init ==
    /\ cpus \in CpuChoices
    /\ debug \in BOOLEAN
    /\ manifest \in Manifests
    /\ queue = << >>
    /\ dpc = "start"
    /\ taken = 0
    /\ st = [i \in 1 .. Len(manifest) |-> "pending"]
    /\ result = "none"
    /\ errors = {}
    /\ pb = 0
    /\ NestedIdle
    /\ PreheatIdle
    /\ ArchiveIdle
    /\ HandlerIdle
    /\ InstallIdle
    /\ HashPathIdle
    /\ ProgressIdle
    /\ WorkerIdle
    /\ CdnIdle

\* directives.rs:221-228: collect, sort by priority, turn into a stream
SortDirectives ==
    /\ dpc = "start"
    /\ queue' \in sort_unstable_by_key(manifest, Directives)
    /\ dpc' = "running"
    /\ UNCHANGED << envvars, otherThanDispatcher, manifest, taken, st, result, errors, pb >>

\* directives.rs:229-261: try_buffered pulls the next directive and starts its handler
Dispatch ==
    /\ dpc = "running"
    /\ ~StreamExhausted
    /\ WindowHasRoom(Cardinality(InWindow), concurrency(cpus, debug))
    /\ st' = [st EXCEPT ![queue[taken + 1]] = "running"]
    /\ taken' = taken + 1
    /\ UNCHANGED << envvars, otherThanDispatcher, manifest, queue, dpc, result, errors, pb >>

\* directives.rs:182-191: a handler finishes, with Ok or with an error; the
\* outcome is left open for every kind of directive
Complete(i, ok) ==
    /\ dpc = "running"
    /\ WindowFilled
    /\ st[i] = "running"
    /\ st' = [st EXCEPT ![i] = IF ok THEN "ok" ELSE "err"]
    /\ UNCHANGED << envvars, otherThanDispatcher, manifest, queue, dpc, taken, result, errors, pb >>

\* directives.rs:262-265: the oldest future is Ok: try_for_each bumps the progress bar
YieldOk ==
    /\ dpc = "running"
    /\ WindowFilled
    /\ InWindow # {}
    /\ st[WindowHead] = "ok"
    /\ st' = [st EXCEPT ![WindowHead] = "yielded"]
    /\ pb' = pb + 1
    /\ UNCHANGED << envvars, otherThanDispatcher, manifest, queue, dpc, taken, result, errors >>

\* directives.rs:262-271: the oldest future is Err: try_for_each stops, the
\* stream and the futures it still holds are dropped, Err(vec![e]) is returned
YieldErr ==
    /\ dpc = "running"
    /\ WindowFilled
    /\ InWindow # {}
    /\ st[WindowHead] = "err"
    /\ st' = [i \in Directives |-> IF st[i] = "running" THEN "cancelled" ELSE st[i]]
    /\ result' = "Err"
    /\ errors' = {WindowHead}
    /\ dpc' = "returned"
    /\ UNCHANGED << envvars, otherThanDispatcher, manifest, queue, taken, pb >>

\* directives.rs:268-270: the stream ended without an error: Ok(vec![()])
ReturnOk ==
    /\ dpc = "running"
    /\ StreamExhausted
    /\ InWindow = {}
    /\ result' = "Ok"
    /\ dpc' = "returned"
    /\ UNCHANGED << envvars, otherThanDispatcher, manifest, queue, taken, st, errors, pb >>

Next ==
    \/ SortDirectives
    \/ Dispatch
    \/ \E i \in Directives, ok \in BOOLEAN : Complete(i, ok)
    \/ YieldOk
    \/ YieldErr
    \/ ReturnOk

-----------------------------------------------------------------------------
(* handle_nested_archive_directives *)

\* root archive hashes and archive-internal paths of the model
Roots == {"h1", "h2"}
InnerPaths == {"a", "b"}
Keys == Roots \X InnerPaths

\* longest batch of archive path directives
MaxNested == 3

NestedBatches == SeqsUpTo(Keys, MaxNested) \ {<< >>}

\* nested_archive_directives.rs:42-61: the variants of ArchivePathDirective
ArchivePathKinds == {"TransformedTexture", "FromArchive", "PatchedFromArchive"}

NDirectives == 1 .. Len(ndirs)

\* DownloadSummary::resolve_archive_path: the root hash must be a key of the
\* download summary
Resolvable(key) == key[1] \in summary

\* nested_archive_directives.rs:22-30: the paths of all directives are
\* resolved and handed to one preheat_archive_hash_paths call
PreheatCalls(dirs) == << dirs >>

SeqRange(q) == {q[k] : k \in 1 .. Len(q)}

\* PreheatedArchiveHashPaths::preheat_archive_hash_paths: the demanded paths
\* are collected into a set per root archive and every entry of that set is
\* extracted once
RECURSIVE preheat_archive_hash_paths(_, _)
preheat_archive_hash_paths(calls, counts) ==
    IF calls = << >> THEN counts
    ELSE preheat_archive_hash_paths(
            Tail(calls),
            [k \in Keys |-> IF k \in SeqRange(Head(calls)) THEN counts[k] + 1 ELSE counts[k]])

\* PreheatedArchiveHashPaths::get_archive: a lookup of the preheated file
get_archive(held, key) == key \in held

NInit ==
    /\ cpus \in CpuChoices
    /\ debug \in BOOLEAN
    /\ summary \in SUBSET Roots
    /\ ndirs \in NestedBatches
    /\ nkinds \in [1 .. Len(ndirs) -> ArchivePathKinds]
    /\ late = {}
    /\ npc = "start"
    /\ preheat = "none"
    /\ extracts = [k \in Keys |-> 0]
    /\ store = {}
    /\ got = [i \in 1 .. Len(ndirs) |-> "none"]
    /\ out = << >>
    /\ DispatcherIdle
    /\ PreheatIdle
    /\ ArchiveIdle
    /\ HandlerIdle
    /\ InstallIdle
    /\ HashPathIdle
    /\ ProgressIdle
    /\ WorkerIdle
    /\ CdnIdle

\* nested_archive_directives.rs:22-30: every path is resolved, the first
\* unresolvable one makes the whole preheat_task an Err
PreheatUnresolvable ==
    /\ npc = "start"
    /\ \E i \in NDirectives : ~Resolvable(ndirs[i])
    /\ preheat' = "err"
    /\ npc' = "iterating"
    /\ UNCHANGED << envvars, otherThanNested, nkinds, late, summary, ndirs, extracts, store, got, out >>

\* nested_archive_directives.rs:22-30: all paths resolve and are preheated;
\* the extraction itself succeeds or fails
PreheatTask(ok) ==
    /\ npc = "start"
    /\ \A i \in NDirectives : Resolvable(ndirs[i])
    /\ extracts' = preheat_archive_hash_paths(PreheatCalls(ndirs), extracts)
    /\ preheat' = IF ok THEN "ok" ELSE "err"
    /\ store' = IF ok THEN SeqRange(ndirs) ELSE {}
    /\ npc' = "iterating"
    /\ UNCHANGED << envvars, otherThanNested, nkinds, late, summary, ndirs, got, out >>

\* nested_archive_directives.rs:35-38: once(Err).try_flat_map yields the one
\* error and the iterator ends
YieldPreheatError ==
    /\ npc = "iterating"
    /\ preheat = "err"
    /\ out' = << [dir |-> 0, ok |-> FALSE] >>
    /\ npc' = "done"
    /\ UNCHANGED << envvars, otherThanNested, nkinds, late, summary, ndirs, preheat, extracts, store, got >>

\* nested_archive_directives.rs:38-63: the next directive is handled.
\* from_archive.rs:60-64, transformed_texture.rs:71-75: the path is resolved
\* and its file looked up in the preheated set. patched_from_archive.rs:41-51,
\* 79-83: the path is resolved and its file asked from the
\* archive_extraction_queue, which extracts an entry on its first demand, and
\* the patch is extracted from the wabbajack archive. Then the copy succeeds
\* or fails.
HandleNext(ok) ==
    /\ npc = "iterating"
    /\ preheat = "ok"
    /\ Len(out) < Len(ndirs)
    /\ LET i == Len(out) + 1
           key == ndirs[i]
           queued == nkinds[i] = "PatchedFromArchive"
           found == Resolvable(key) /\ (queued \/ get_archive(store, key))
       IN  /\ got' = [got EXCEPT ![i] = IF ~found THEN "none" ELSE IF queued THEN "queued" ELSE key]
           /\ out' = Append(out, [dir |-> i, ok |-> found /\ ok])
           /\ late' = IF queued /\ found THEN late \cup {<< "source", key >>, << "patch", i >>} ELSE late
           /\ extracts' = IF queued /\ found /\ << "source", key >> \notin late
                          THEN [extracts EXCEPT ![key] = @ + 1]
                          ELSE extracts
    /\ UNCHANGED << envvars, otherThanNested, summary, ndirs, nkinds, npc, preheat, store >>

\* the iterator is exhausted
NestedDone ==
    /\ npc = "iterating"
    /\ preheat = "ok"
    /\ Len(out) = Len(ndirs)
    /\ npc' = "done"
    /\ UNCHANGED << envvars, otherThanNested, nkinds, late, summary, ndirs, preheat, extracts, store, got, out >>

NNext ==
    \/ PreheatUnresolvable
    \/ \E ok \in BOOLEAN : PreheatTask(ok)
    \/ YieldPreheatError
    \/ \E ok \in BOOLEAN : HandleNext(ok)
    \/ NestedDone

SpecNested == NInit /\ [][NNext]_vars

-----------------------------------------------------------------------------
(* PreheatedArchive::from_archive_concurrent *)

\* most entries an archive of the model lists
MaxPaths == 4

\* largest chunk_size
MaxChunkSize == 2

Min(a, b) == IF a <= b THEN a ELSE b

\* windows of chunk_size paths that start at every path
OverlappingChunks(n, size) ==
    [c \in 1 .. n |-> [k \in 1 .. Min(size, n - c + 1) |-> c + k - 1]]

\* slice::chunks(chunk_size): consecutive runs of chunk_size paths, the last
\* one shorter when the length is not a multiple
Chunks(n, size) ==
    [c \in 1 .. ((n + size - 1) \div size) |->
        [k \in 1 .. Min(size, n - (c - 1) * size) |-> (c - 1) * size + k]]

\* the rayon global pool: one worker thread per CPU
PoolThreads(numCpus) == numCpus

ChunkIds == 1 .. Len(chunks)

OpenChunks == {c \in ChunkIds : cs[c] = "open"}

\* archive handles that are open right now
OpenHandles == (IF ppc = "listing" THEN 1 ELSE 0) + Cardinality(OpenChunks)

FilesOf(c) == {f \in disk : f[1] = c}

\* the temp files of a failed chunk are left behind
KeepFilesOfChunk(files, c) == files

\* the handles a chunk collected are NamedTempFile / TempPath values: dropping
\* them deletes their files
DropFilesOfChunk(files, c) == {f \in files : f[1] # c}

\* BTreeMap::extend over the chunk maps, in chunk order: a later chunk's
\* entry replaces an earlier one for the same path, whose TempPath is dropped
RECURSIVE FoldChunks(_, _)
FoldChunks(k, acc) ==
    IF k > Len(chunks) THEN acc
    ELSE FoldChunks(k + 1,
            [p \in 1 .. npaths |->
                IF p \in SeqRange(chunks[k]) THEN << k, p >> ELSE acc[p]])

PInit ==
    /\ cpus \in CpuChoices
    /\ debug \in BOOLEAN
    /\ npaths \in 0 .. MaxPaths
    /\ chunkSize \in 1 .. MaxChunkSize
    /\ ppc = "start"
    /\ chunks = << >>
    /\ cs = << >>
    /\ entry = << >>
    /\ writing = << >>
    /\ opens = 0
    /\ extracted = [p \in 1 .. npaths |-> 0]
    /\ disk = {}
    /\ paths = << >>
    /\ DispatcherIdle
    /\ NestedIdle
    /\ ArchiveIdle
    /\ HandlerIdle
    /\ InstallIdle
    /\ HashPathIdle
    /\ ProgressIdle
    /\ WorkerIdle
    /\ CdnIdle

\* preheated_archive.rs:21: the archive is opened to list its paths
OpenForListing ==
    /\ ppc = "start"
    /\ opens' = opens + 1
    /\ ppc' = "listing"
    /\ UNCHANGED << envvars, otherThanPreheat, npaths, chunkSize, chunks, cs, entry, writing, extracted, disk, paths >>

\* preheated_archive.rs:21-27: list_paths returns, the listing handle is
\* closed, the paths are cut into chunks for the parallel iterator
ListPaths ==
    /\ ppc = "listing"
    /\ chunks' = Chunks(npaths, chunkSize)
    /\ cs' = [c \in 1 .. Len(chunks') |-> "pending"]
    /\ entry' = [c \in 1 .. Len(chunks') |-> 0]
    /\ writing' = [c \in 1 .. Len(chunks') |-> FALSE]
    /\ ppc' = "chunks"
    /\ UNCHANGED << envvars, otherThanPreheat, npaths, chunkSize, opens, extracted, disk, paths >>

\* preheated_archive.rs:28-29: a pool worker takes a chunk and opens the
\* archive again for it
OpenChunk(c) ==
    /\ ppc = "chunks"
    /\ cs[c] = "pending"
    /\ Cardinality(OpenChunks) < PoolThreads(cpus)
    /\ cs' = [cs EXCEPT ![c] = "open"]
    /\ opens' = opens + 1
    /\ UNCHANGED << envvars, otherThanPreheat, ppc, npaths, chunkSize, chunks, entry, writing, extracted, disk, paths >>

\* sevenz.rs:150-162, zip.rs:108-116: get_many_handles creates the temp file
\* of the chunk's next entry and starts copying into it
BeginEntry(c) ==
    /\ ppc = "chunks"
    /\ cs[c] = "open"
    /\ ~writing[c]
    /\ entry[c] < Len(chunks[c])
    /\ LET p == chunks[c][entry[c] + 1]
       IN  /\ disk' = disk \cup {<< c, p >>}
           /\ extracted' = [extracted EXCEPT ![p] = @ + 1]
    /\ writing' = [writing EXCEPT ![c] = TRUE]
    /\ UNCHANGED << envvars, otherThanPreheat, ppc, npaths, chunkSize, chunks, cs, entry, opens, paths >>

\* sevenz.rs:163-187, zip.rs:117-136: the copy ends. With the declared size
\* the handle joins the chunk's output; on an I/O error or a size mismatch
\* get_many_handles returns Err, its temp file and the handles collected so far
\* are dropped and the archive is closed
EndEntry(c, ok) ==
    /\ ppc = "chunks"
    /\ cs[c] = "open"
    /\ writing[c]
    /\ writing' = [writing EXCEPT ![c] = FALSE]
    /\ IF ok
       THEN /\ entry' = [entry EXCEPT ![c] = @ + 1]
            /\ UNCHANGED << cs, disk >>
       ELSE /\ cs' = [cs EXCEPT ![c] = "err"]
            /\ disk' = DropFilesOfChunk(disk, c)
            /\ UNCHANGED entry
    /\ UNCHANGED << envvars, otherThanPreheat, ppc, npaths, chunkSize, chunks, opens, extracted, paths >>

\* preheated_archive.rs:29-45: get_many_handles returned every handle of the
\* chunk, the archive is closed, each handle is turned into a TempPath; if that
\* fails for one of them the chunk is an Err and its handles are dropped
CloseChunk(c, ok) ==
    /\ ppc = "chunks"
    /\ cs[c] = "open"
    /\ ~writing[c]
    /\ entry[c] = Len(chunks[c])
    /\ IF ok
       THEN /\ cs' = [cs EXCEPT ![c] = "ok"]
            /\ UNCHANGED disk
       ELSE /\ cs' = [cs EXCEPT ![c] = "err"]
            /\ disk' = DropFilesOfChunk(disk, c)
    /\ UNCHANGED << envvars, otherThanPreheat, ppc, npaths, chunkSize, chunks, entry, writing, opens, extracted, paths >>

\* preheated_archive.rs:47: collect::<Result<Vec<_>>> over the parallel
\* iterator: once a chunk has failed, chunks not yet started may be skipped
SkipChunk(c) ==
    /\ ppc = "chunks"
    /\ cs[c] = "pending"
    /\ \E d \in ChunkIds : cs[d] = "err"
    /\ cs' = [cs EXCEPT ![c] = "skipped"]
    /\ UNCHANGED << envvars, otherThanPreheat, ppc, npaths, chunkSize, chunks, entry, writing, opens, extracted, disk, paths >>

\* preheated_archive.rs:47-54: every chunk succeeded: the chunk maps are
\* folded into PreheatedArchive.paths
CollectOk ==
    /\ ppc = "chunks"
    /\ \A c \in ChunkIds : cs[c] = "ok"
    /\ paths' = FoldChunks(1, [p \in 1 .. npaths |-> << 0, p >>])
    /\ disk' = {f \in disk : \E p \in 1 .. npaths : paths'[p] = f}
    /\ ppc' = "collected"
    /\ UNCHANGED << envvars, otherThanPreheat, npaths, chunkSize, chunks, cs, entry, writing, opens, extracted >>

\* preheated_archive.rs:47-48, 56: some chunk failed: the Err is returned and
\* the maps of the chunks that succeeded are dropped
CollectErr ==
    /\ ppc = "chunks"
    /\ \A c \in ChunkIds : cs[c] \in {"ok", "err", "skipped"}
    /\ \E c \in ChunkIds : cs[c] = "err"
    /\ disk' = {f \in disk : cs[f[1]] # "ok"}
    /\ ppc' = "failed"
    /\ UNCHANGED << envvars, otherThanPreheat, npaths, chunkSize, chunks, cs, entry, writing, opens, extracted, paths >>

\* preheated_archive.rs:15-17: the PreheatedArchive is dropped, and with it
\* every TempPath of its map
DropPreheated ==
    /\ ppc = "collected"
    /\ disk' = {f \in disk : \A p \in 1 .. npaths : paths[p] # f}
    /\ paths' = << >>
    /\ ppc' = "dropped"
    /\ UNCHANGED << envvars, otherThanPreheat, npaths, chunkSize, chunks, cs, entry, writing, opens, extracted >>

PNext ==
    \/ OpenForListing
    \/ ListPaths
    \/ \E c \in ChunkIds : OpenChunk(c)
    \/ \E c \in ChunkIds : BeginEntry(c)
    \/ \E c \in ChunkIds, ok \in BOOLEAN : EndEntry(c, ok)
    \/ \E c \in ChunkIds, ok \in BOOLEAN : CloseChunk(c, ok)
    \/ \E c \in ChunkIds : SkipChunk(c)
    \/ CollectOk
    \/ CollectErr
    \/ DropPreheated

SpecPreheat == PInit /\ [][PNext]_vars

-----------------------------------------------------------------------------
(* ProcessArchive::get_many_handles: zip, 7z (sevenz_rust2), wrapped 7z *)

\* most entries an archive of the model holds
MaxEntries == 3

\* most paths one get_many_handles call is asked for
MaxRequested == 2

\* ArchiveHandleKind
Adapters == {"zip", "sevenz", "wrapped"}

\* entry names of the model: three spellings of one name, and another name
EntryNames ==
    {<< "F", "o", "o" >>, << "f", "o", "o" >>, << "F", "O", "O" >>, << "b", "a", "r" >>}

to_lowercase_char(c) ==
    CASE c = "F" -> "f"
      [] c = "O" -> "o"
      [] c = "D" -> "d"
      [] c = "S" -> "s"
      [] OTHER -> c

\* str::to_lowercase
to_lowercase(s) == [i \in 1 .. Len(s) |-> to_lowercase_char(s[i])]

\* an archive lists every name once
RECURSIVE DistinctSeqsUpTo(_, _)
DistinctSeqsUpTo(S, n) ==
    IF n = 0 THEN {<< >>}
    ELSE LET shorter == DistinctSeqsUpTo(S, n - 1)
         IN  shorter \cup
             UNION {{Append(s, x) : x \in S \ SeqRange(s)} : s \in {t \in shorter : Len(t) = n - 1}}

\* solid blocks of a 7z archive
BlockIndices == {1, 2}

\* file_block_index of an entry that has no stream: None
NoBlock == 0

\* sizes an entry declares, and byte counts a copy can end with
EntrySizes == {1, 2}
CopiedSizes == {0, 1, 2}

\* zip.rs:79-90: every requested path is removed from the name lookup; a path
\* that is not a key of the lookup is an error
RECURSIVE zip_lookup(_, _, _, _, _)
zip_lookup(fs, req, k, left, pairs) ==
    IF k > Len(req) THEN [ok |-> TRUE, pairs |-> pairs, warned |-> {}, failedAt |-> 0]
    ELSE LET exact == {i \in left : fs[i] = req[k]}
         IN  IF exact = {}
             THEN [ok |-> FALSE, pairs |-> << >>, warned |-> {}, failedAt |-> k]
             ELSE zip_lookup(fs, req, k + 1, left \ exact,
                             Append(pairs, << k, CHOOSE i \in exact : TRUE >>))

\* sevenz.rs:87-111: a requested path is removed from the name lookup; when
\* it is not a key, find_map over the HashMap takes the first remaining key
\* that is equal in lower case (the iteration order of a HashMap is
\* unspecified), logs a warning and leaves that key in the lookup
RECURSIVE sevenz_lookup(_, _, _, _, _, _)
sevenz_lookup(fs, req, k, left, pairs, warns) ==
    IF k > Len(req) THEN {[ok |-> TRUE, pairs |-> pairs, warned |-> warns, failedAt |-> 0]}
    ELSE LET exact == {i \in left : fs[i] = req[k]}
             insensitive == {i \in left : to_lowercase(fs[i]) = to_lowercase(req[k])}
         IN  IF exact # {}
             THEN sevenz_lookup(fs, req, k + 1, left \ exact,
                                Append(pairs, << k, CHOOSE i \in exact : TRUE >>), warns)
             ELSE IF insensitive = {}
             THEN {[ok |-> FALSE, pairs |-> << >>, warned |-> warns, failedAt |-> k]}
             ELSE UNION {sevenz_lookup(fs, req, k + 1, left, Append(pairs, << k, i >>), warns \cup {k}) :
                            i \in insensitive}

\* wrapped-7zip lib.rs:180-188: the listed entries are filtered in listing
\* order: an entry is kept when its lower-cased path is still a key of the
\* lookup, and the key is removed
RECURSIVE wrapped_filter(_, _, _, _)
wrapped_filter(fs, i, lookup, kept) ==
    IF i > Len(fs) THEN [kept |-> kept, lookup |-> lookup]
    ELSE IF to_lowercase(fs[i]) \in lookup
         THEN wrapped_filter(fs, i + 1, lookup \ {to_lowercase(fs[i])}, Append(kept, i))
         ELSE wrapped_filter(fs, i + 1, lookup, kept)

\* wrapped-7zip lib.rs:170-195: the lookup is keyed by the lower-cased
\* requested paths (a later request replaces an earlier one with the same key);
\* a key no listed entry removed is an error
wrapped_lookup(fs, req) ==
    LET keyOf(k) == to_lowercase(req[k])
        lastWith(key) == CHOOSE k \in 1 .. Len(req) :
                            keyOf(k) = key /\ \A j \in 1 .. Len(req) : keyOf(j) = key => j <= k
        r == wrapped_filter(fs, 1, {keyOf(k) : k \in 1 .. Len(req)}, << >>)
    IN  IF r.lookup = {}
        THEN [ok |-> TRUE,
              pairs |-> [n \in 1 .. Len(r.kept) |-> << lastWith(to_lowercase(fs[r.kept[n]])), r.kept[n] >>],
              warned |-> {},
              failedAt |-> 0]
        ELSE [ok |-> FALSE,
              pairs |-> << >>,
              warned |-> {},
              failedAt |-> CHOOSE k \in 1 .. Len(req) :
                              keyOf(k) \in r.lookup /\ \A j \in 1 .. Len(req) : keyOf(j) \in r.lookup => k <= j]

\* the outcomes of the name lookup an adapter can produce
Resolutions(kind, fs, req) ==
    CASE kind = "zip" -> {zip_lookup(fs, req, 1, 1 .. Len(fs), << >>)}
      [] kind = "sevenz" -> sevenz_lookup(fs, req, 1, 1 .. Len(fs), << >>, {})
      [] kind = "wrapped" -> {wrapped_lookup(fs, req)}

\* the entries the name lookup resolved the requests to
Wanted == {resolved[n][2] : n \in 1 .. Len(resolved)}

\* sevenz.rs:113-116: the BTreeMap keyed by entry name keeps the requested
\* path of the last pair that names the entry
RequestOf(e) ==
    LET n == CHOOSE m \in 1 .. Len(resolved) :
                resolved[m][2] = e /\ \A l \in 1 .. Len(resolved) : resolved[l][2] = e => l <= m
    IN  resolved[n][1]

\* every requested entry is a group of its own
GroupKeyPerEntry(i, blk) == << blk[i], i >>

\* sevenz.rs:132: chunk_by(|(_, (_, idx))| *idx)
GroupKey(i, blk) == blk[i]

\* sevenz.rs:129-143: the requested entries sorted by block index and cut
\* into runs of equal key, one lookup per run
RECURSIVE chunk_by(_, _)
chunk_by(E, blk) ==
    IF E = {} THEN << >>
    ELSE LET first == CHOOSE i \in E : \A j \in E : blk[i] < blk[j] \/ (blk[i] = blk[j] /\ i <= j)
             run == {i \in E : GroupKey(i, blk) = GroupKey(first, blk)}
         IN  << [block |-> blk[first], lookup |-> run] >> \o chunk_by(E \ run, blk)

RECURSIVE Ascending(_)
Ascending(S) ==
    IF S = {} THEN << >>
    ELSE LET least == CHOOSE i \in S : \A j \in S : i <= j
         IN  << least >> \o Ascending(S \ {least})

\* the entries BlockDecoder::for_each_entries visits for a block, in order
BlockEntries(b) == Ascending({i \in 1 .. Len(listing) : blockOf[i] = b})

\* a copy that ended at or below the declared size is accepted
SizeAtMost(wrote, expected) == wrote <= expected

\* sevenz.rs:171-174, zip.rs:124-127: wrote.eq(&expected_size)
SizeMatches(wrote, expected) == wrote = expected

\* an Err leaves get_many_handles: the handles collected so far are dropped,
\* and their temp files with them
ReturnErr ==
    /\ handles' = << >>
    /\ tempfiles' = {}
    /\ aresult' = "Err"
    /\ apc' = "returned"

AInit ==
    /\ EnvIdle
    /\ adapter \in Adapters
    /\ listing \in DistinctSeqsUpTo(EntryNames, MaxEntries) \ {<< >>}
    /\ blockOf \in IF adapter = "sevenz"
                   THEN [1 .. Len(listing) -> BlockIndices \cup {NoBlock}]
                   ELSE {[i \in 1 .. Len(listing) |-> NoBlock]}
    /\ requested \in SeqsUpTo(EntryNames, MaxRequested)
    /\ apc = "start"
    /\ resolved = << >>
    /\ warned = {}
    /\ failedAt = 0
    /\ groups = << >>
    /\ cur = 0
    /\ blockOpen = FALSE
    /\ cont = FALSE
    /\ pos = 0
    /\ pending = {}
    /\ decodes = [b \in BlockIndices |-> 0]
    /\ drained = {}
    /\ written = {}
    /\ tempfiles = {}
    /\ handles = << >>
    /\ aresult = "none"
    /\ mismatch = FALSE
    /\ DispatcherIdle
    /\ NestedIdle
    /\ PreheatIdle
    /\ HandlerIdle
    /\ InstallIdle
    /\ HashPathIdle
    /\ ProgressIdle
    /\ WorkerIdle
    /\ CdnIdle

\* zip.rs:72-90, sevenz.rs:79-111, wrapped-7zip lib.rs:170-195: the requested
\* paths are looked up among the names of the archive
Resolve ==
    /\ apc = "start"
    /\ \E r \in Resolutions(adapter, listing, requested) :
          /\ resolved' = r.pairs
          /\ warned' = r.warned
          /\ failedAt' = r.failedAt
          /\ IF r.ok
             THEN /\ apc' = IF adapter = "sevenz" THEN "resolved" ELSE "extract"
                  /\ UNCHANGED << handles, tempfiles, aresult >>
             ELSE ReturnErr
    /\ UNCHANGED << envvars, otherThanArchive, adapter, listing, blockOf, requested, groups, cur,
                    blockOpen, cont, pos, pending, decodes, drained, written, mismatch >>

\* sevenz.rs:112-143: an entry without a block index is an error; the others
\* are sorted by block index and grouped
PlanBlocks ==
    /\ apc = "resolved"
    /\ IF \E i \in Wanted : blockOf[i] = NoBlock
       THEN /\ ReturnErr
            /\ UNCHANGED groups
       ELSE /\ groups' = chunk_by(Wanted, blockOf)
            /\ apc' = "extract"
            /\ UNCHANGED << handles, tempfiles, aresult >>
    /\ UNCHANGED << envvars, otherThanArchive, adapter, listing, blockOf, requested, resolved, warned,
                    failedAt, cur, blockOpen, cont, pos, pending, decodes, drained, written, mismatch >>

\* sevenz.rs:145-149: a BlockDecoder is created for the block of the next group
OpenBlock ==
    /\ apc = "extract"
    /\ adapter = "sevenz"
    /\ ~blockOpen
    /\ cur < Len(groups)
    /\ cur' = cur + 1
    /\ blockOpen' = TRUE
    /\ cont' = TRUE
    /\ pos' = 0
    /\ pending' = groups[cur + 1].lookup
    /\ decodes' = [decodes EXCEPT ![groups[cur + 1].block] = @ + 1]
    /\ UNCHANGED << envvars, otherThanArchive, adapter, listing, blockOf, requested, apc, resolved,
                    warned, failedAt, groups, drained, written, tempfiles, handles, aresult, mismatch >>

\* sevenz.rs:150-193: the callback of for_each_entries for the next entry of
\* the block. A requested entry is copied into a new temp file and kept when
\* the byte count is the declared size; any other entry is copied into
\* io::empty(). The callback asks for the next entry while its lookup is not
\* empty; an error ends the call
DecodeEntry(expected, wrote, io_ok) ==
    /\ apc = "extract"
    /\ blockOpen
    /\ cont
    /\ pos < Len(BlockEntries(groups[cur].block))
    /\ LET e == BlockEntries(groups[cur].block)[pos + 1]
       IN  IF e \in pending
           THEN /\ written' = written \cup {e}
                /\ mismatch' = (mismatch \/ (io_ok /\ wrote # expected))
                /\ UNCHANGED drained
                /\ IF io_ok /\ SizeMatches(wrote, expected)
                   THEN /\ handles' = Append(handles, [req |-> RequestOf(e), entry |-> e,
                                                        expected |-> expected, wrote |-> wrote])
                        /\ tempfiles' = tempfiles \cup {e}
                        /\ pending' = pending \ {e}
                        /\ cont' = (pending' # {})
                        /\ pos' = pos + 1
                        /\ UNCHANGED << apc, aresult, blockOpen >>
                   ELSE /\ ReturnErr
                        /\ blockOpen' = FALSE
                        /\ UNCHANGED << pending, cont, pos >>
           ELSE /\ UNCHANGED << written, mismatch, pending >>
                /\ IF io_ok
                   THEN /\ drained' = drained \cup {e}
                        /\ cont' = (pending # {})
                        /\ pos' = pos + 1
                        /\ UNCHANGED << apc, aresult, blockOpen, handles, tempfiles >>
                   ELSE /\ ReturnErr
                        /\ blockOpen' = FALSE
                        /\ UNCHANGED << drained, cont, pos >>
    /\ UNCHANGED << envvars, otherThanArchive, adapter, listing, blockOf, requested, resolved, warned,
                    failedAt, groups, cur, decodes >>

\* sevenz.rs:194-202: for_each_entries returned: a lookup that is not empty
\* is the error "not all entries were extracted"
CloseBlock ==
    /\ apc = "extract"
    /\ blockOpen
    /\ ~cont \/ pos = Len(BlockEntries(groups[cur].block))
    /\ blockOpen' = FALSE
    /\ IF pending = {}
       THEN UNCHANGED << handles, tempfiles, aresult, apc >>
       ELSE ReturnErr
    /\ UNCHANGED << envvars, otherThanArchive, adapter, listing, blockOf, requested, resolved, warned,
                    failedAt, groups, cur, cont, pos, pending, decodes, drained, written, mismatch >>

\* zip.rs:97-137: the next resolved file is opened by name and copied into a
\* new temp file, which is kept when the byte count is the declared size
ExtractZipEntry(expected, wrote, io_ok) ==
    /\ apc = "extract"
    /\ adapter = "zip"
    /\ pos < Len(resolved)
    /\ LET e == resolved[pos + 1][2]
       IN  /\ written' = written \cup {e}
           /\ mismatch' = (mismatch \/ (io_ok /\ wrote # expected))
           /\ IF io_ok /\ SizeMatches(wrote, expected)
              THEN /\ handles' = Append(handles, [req |-> resolved[pos + 1][1], entry |-> e,
                                                   expected |-> expected, wrote |-> wrote])
                   /\ tempfiles' = tempfiles \cup {e}
                   /\ pos' = pos + 1
                   /\ UNCHANGED << apc, aresult >>
              ELSE /\ ReturnErr
                   /\ UNCHANGED pos
    /\ UNCHANGED << envvars, otherThanArchive, adapter, listing, blockOf, requested, resolved, warned,
                    failedAt, groups, cur, blockOpen, cont, pending, decodes, drained >>

\* wrapped-7zip lib.rs:196-252: one `7z x` run is given the kept entries and
\* an output directory; when it exits successfully the file of every entry is
\* opened; given no entry, the program extracts every entry of the archive
RunSevenZip(size, ok) ==
    /\ apc = "extract"
    /\ adapter = "wrapped"
    /\ IF ok
       THEN /\ handles' = [n \in 1 .. Len(resolved) |->
                              [req |-> resolved[n][1], entry |-> resolved[n][2],
                               expected |-> size, wrote |-> size]]
            /\ written' = IF resolved = << >> THEN 1 .. Len(listing) ELSE Wanted
            /\ tempfiles' = Wanted
            /\ aresult' = "Ok"
            /\ apc' = "returned"
       ELSE /\ ReturnErr
            /\ UNCHANGED written
    /\ UNCHANGED << envvars, otherThanArchive, adapter, listing, blockOf, requested, resolved, warned,
                    failedAt, groups, cur, blockOpen, cont, pos, pending, decodes, drained, mismatch >>

\* sevenz.rs:204-205, zip.rs:138: every group, or every file, was extracted:
\* the handles are returned
ReturnHandles ==
    /\ apc = "extract"
    /\ \/ adapter = "sevenz" /\ ~blockOpen /\ cur = Len(groups)
       \/ adapter = "zip" /\ pos = Len(resolved)
    /\ aresult' = "Ok"
    /\ apc' = "returned"
    /\ UNCHANGED << envvars, otherThanArchive, adapter, listing, blockOf, requested, resolved, warned,
                    failedAt, groups, cur, blockOpen, cont, pos, pending, decodes, drained, written,
                    tempfiles, handles, mismatch >>

ANext ==
    \/ Resolve
    \/ PlanBlocks
    \/ OpenBlock
    \/ \E expected \in EntrySizes, wrote \in CopiedSizes, io_ok \in BOOLEAN : DecodeEntry(expected, wrote, io_ok)
    \/ CloseBlock
    \/ \E expected \in EntrySizes, wrote \in CopiedSizes, io_ok \in BOOLEAN : ExtractZipEntry(expected, wrote, io_ok)
    \/ \E size \in EntrySizes, ok \in BOOLEAN : RunSevenZip(size, ok)
    \/ ReturnHandles

SpecArchive == AInit /\ [][ANext]_vars

-----------------------------------------------------------------------------
(* The directive handlers: InlineFileHandler, FromArchiveHandler,          *)
(* PatchedFromArchiveHandler, RemappedInlineFileHandler,                   *)
(* TransformedTextureHandler, CreateBSAHandler                             *)

\* extensions of the destination paths of the model
Extensions == {<< "d", "d", "s" >>, << "D", "D", "S" >>, << "t", "x", "t" >>}

\* from_archive.rs:26-29
EXTENSION_HASH_WHITELIST == {<< "d", "d", "s" >>}

\* the extension is compared as it is spelled
is_whitelisted_exact_case(e) == e \in EXTENSION_HASH_WHITELIST

\* from_archive.rs:31-39: the extension, lower-cased, is on the whitelist
is_whitelisted_by_path(e) == to_lowercase(e) \in EXTENSION_HASH_WHITELIST

\* the validating readers a handler stacks on the bytes it copies
\*   from_archive.rs:71-82, patched_from_archive.rs:69-74,
\*   transformed_texture.rs:130-135 (the byte count alone),
\*   inline_file.rs:44, remapped_inline_file.rs:129, create_bsa.rs:45 (none)
Validators(kind, e) ==
    CASE kind = "FromArchive" ->
            IF is_whitelisted_by_path(e) THEN {"size"} ELSE {"size", "hash"}
      [] kind = "PatchedFromArchive" -> {"size", "hash"}
      [] kind = "TransformedTexture" -> {"size"}
      [] OTHER -> {}

\* ReadExt::and_validate_size, ReadExt::and_validate_hash: the copy ends with
\* an error when the bytes that went through differ from what was expected
ValidatorsPass(stack, sizeOk, hashOk) ==
    /\ "size" \in stack => sizeOk
    /\ "hash" \in stack => hashOk

HInit ==
    /\ EnvIdle
    /\ hkind \in Kinds
    /\ ext \in Extensions
    /\ existing \in BOOLEAN
    /\ srcSizeOk \in BOOLEAN
    /\ srcHashOk \in BOOLEAN
    /\ hpc = "start"
    /\ lockHeld = FALSE
    /\ io = FALSE
    /\ wroteDest = FALSE
    /\ checks = {}
    /\ hresult = "none"
    /\ DispatcherIdle
    /\ NestedIdle
    /\ PreheatIdle
    /\ ArchiveIdle
    /\ InstallIdle
    /\ HashPathIdle
    /\ ProgressIdle
    /\ WorkerIdle
    /\ CdnIdle

\* inline_file.rs:28-29, 54: the destination is hashed first; when it has the
\* directive's hash already, nothing is written
ValidateExisting ==
    /\ hpc = "start"
    /\ hkind = "InlineFile"
    /\ IF existing
       THEN /\ hresult' = "Ok"
            /\ hpc' = "done"
       ELSE /\ hpc' = "create"
            /\ UNCHANGED hresult
    /\ UNCHANGED << envvars, otherThanHandler, hkind, ext, existing, srcSizeOk, srcHashOk, lockHeld, io,
                    wroteDest, checks >>

\* inline_file.rs:37-39, remapped_inline_file.rs:110-111:
\* wabbajack_file.blocking_lock()
LockArchive ==
    /\ \/ hkind = "InlineFile" /\ hpc = "create"
       \/ hkind = "RemappedInlineFile" /\ hpc = "start"
    /\ ~lockHeld
    /\ lockHeld' = TRUE
    /\ hpc' = "locked"
    /\ UNCHANGED << envvars, otherThanHandler, hkind, ext, existing, srcSizeOk, srcHashOk, io, wroteDest,
                    checks, hresult >>

\* inline_file.rs:40-41, remapped_inline_file.rs:112: get_handle / get_file
\* on the locked archive starts extracting the entry into a temp file
BeginGetHandle ==
    /\ hpc = "locked"
    /\ io' = TRUE
    /\ hpc' = "extracting"
    /\ UNCHANGED << envvars, otherThanHandler, hkind, ext, existing, srcSizeOk, srcHashOk, lockHeld,
                    wroteDest, checks, hresult >>

\* inline_file.rs:42-52, remapped_inline_file.rs:113-137: the extraction
\* ends, the bytes are copied (remapped first) to the destination, the guard
\* is dropped at the end of the closure
CopyInline(ok) ==
    /\ hpc = "extracting"
    /\ io' = FALSE
    /\ lockHeld' = FALSE
    /\ wroteDest' = ok
    /\ checks' = IF ok THEN Validators(hkind, ext) ELSE {}
    /\ hresult' = IF ok /\ ValidatorsPass(checks', srcSizeOk, srcHashOk) THEN "Ok" ELSE "Err"
    /\ hpc' = "done"
    /\ UNCHANGED << envvars, otherThanHandler, hkind, ext, existing, srcSizeOk, srcHashOk >>

\* from_archive.rs:60-64, patched_from_archive.rs:41-51,
\* transformed_texture.rs:71-75: the source is resolved and asked from the
\* preheated set or the extraction queue
GetSource(ok) ==
    /\ hpc = "start"
    /\ hkind \in {"FromArchive", "PatchedFromArchive", "TransformedTexture"}
    /\ IF ok
       THEN /\ hpc' = "copy"
            /\ UNCHANGED hresult
       ELSE /\ hresult' = "Err"
            /\ hpc' = "done"
    /\ UNCHANGED << envvars, otherThanHandler, hkind, ext, existing, srcSizeOk, srcHashOk, lockHeld, io,
                    wroteDest, checks >>

\* from_archive.rs:67-107, patched_from_archive.rs:55-97,
\* transformed_texture.rs:77-170, create_bsa.rs:31-63: the destination is
\* created and the bytes are copied into it through the handler's validators
PerformCopy(ok) ==
    /\ \/ hpc = "copy"
       \/ hpc = "start" /\ hkind = "CreateBSA"
    /\ wroteDest' = TRUE
    /\ checks' = Validators(hkind, ext)
    /\ hresult' = IF ok /\ ValidatorsPass(checks', srcSizeOk, srcHashOk) THEN "Ok" ELSE "Err"
    /\ hpc' = "done"
    /\ UNCHANGED << envvars, otherThanHandler, hkind, ext, existing, srcSizeOk, srcHashOk, lockHeld, io >>

HNext ==
    \/ ValidateExisting
    \/ LockArchive
    \/ BeginGetHandle
    \/ \E ok \in BOOLEAN : CopyInline(ok)
    \/ \E ok \in BOOLEAN : GetSource(ok)
    \/ \E ok \in BOOLEAN : PerformCopy(ok)

SpecHandler == HInit /\ [][HNext]_vars

-----------------------------------------------------------------------------
(* The install command: main, install_modlist, sync_downloads *)

\* most archives a modlist of the model lists
MaxArchives == 2

\* what can be at an archive's download_output_path: nothing, a file of another
\* size, a file of the declared size with another hash, the archive itself
FileStates == {"absent", "wrong_size", "wrong_hash", "valid"}

\* a file of the declared size is taken for the archive
verify_size_only(file) == file \in {"wrong_hash", "valid"}

\* download_cache.rs:193-220: the file exists, has the declared size and the
\* declared hash
verify(file) == file = "valid"

\* only the first error is printed
first_line_only(errs) == [k \in 1 .. (IF errs = << >> THEN 0 ELSE 1) |-> [number |-> k, failure |-> errs[k]]]

\* main.rs:174-177: errors.iter().enumerate() printed as "{idx + 1}. {reason}"
numbered_lines(errs) == [k \in 1 .. Len(errs) |-> [number |-> (k - 1) + 1, failure |-> errs[k]]]

\* only the first error of the stream is kept
drop_later_errors(errs, file) == IF file.ok \/ errs # << >> THEN errs ELSE << file.archive >>

\* src/install_modlist.rs:472-483: try_buffer_unordered yields one item for
\* every archive, an error as an item like any other, and filter_map keeps
\* the errors
filter_map(errs, file) == IF file.ok THEN errs ELSE Append(errs, file.archive)

RInit ==
    /\ EnvIdle
    /\ skipVerify \in BOOLEAN
    /\ \E n \in 1 .. MaxArchives : afile \in [1 .. n -> FileStates]
    /\ how = [i \in 1 .. Len(afile) |-> "none"]
    /\ rsummary = {}
    /\ synced = {}
    /\ failures = << >>
    /\ printed = << >>
    /\ reported = -1
    /\ exitCode = -1
    /\ rpc = "start"
    /\ DispatcherIdle
    /\ NestedIdle
    /\ PreheatIdle
    /\ ArchiveIdle
    /\ HandlerIdle
    /\ HashPathIdle
    /\ ProgressIdle
    /\ WorkerIdle
    /\ CdnIdle

\* install_modlist.rs:181-193: with skip_verify_and_downloads the summary is
\* every archive of the modlist with its download_output_path
BuildSummaryUnchecked ==
    /\ rpc = "start"
    /\ skipVerify
    /\ rsummary' = 1 .. Len(afile)
    /\ how' = [i \in 1 .. Len(afile) |-> "unchecked"]
    /\ rpc' = "directives"
    /\ UNCHANGED << envvars, otherThanInstall, skipVerify, afile, synced, failures, printed, reported, exitCode >>

\* install_modlist.rs:194, src/install_modlist.rs:437-485: sync_downloads
\* deals with an archive: a file the cache verifies is taken as it is; any
\* other is fetched, which fails or leaves a file of the declared size
SyncArchive(i, fetched) ==
    /\ rpc \in {"start", "syncing"}
    /\ ~skipVerify
    /\ i \notin synced
    /\ synced' = synced \cup {i}
    /\ rpc' = "syncing"
    /\ failures' = filter_map(failures, [ok |-> verify(afile[i]) \/ fetched # "error", archive |-> i])
    /\ IF verify(afile[i])
       THEN /\ how' = [how EXCEPT ![i] = "verified"]
            /\ rsummary' = rsummary \cup {i}
            /\ UNCHANGED afile
       ELSE IF fetched = "error"
       THEN UNCHANGED << afile, how, rsummary >>
       ELSE /\ afile' = [afile EXCEPT ![i] = fetched]
            /\ how' = [how EXCEPT ![i] = "fetched"]
            /\ rsummary' = rsummary \cup {i}
    /\ UNCHANGED << envvars, otherThanInstall, skipVerify, printed, reported, exitCode >>

\* install_modlist.rs:196-201: sync_downloads is over: its errors end
\* install_modlist, otherwise the summary goes to the DirectivesHandler
SyncDone ==
    /\ rpc = "syncing"
    /\ synced = 1 .. Len(afile)
    /\ rpc' = IF failures = << >> THEN "directives" ELSE "reporting"
    /\ UNCHANGED << envvars, otherThanInstall, skipVerify, afile, how, rsummary, synced, failures, printed,
                    reported, exitCode >>

\* install_modlist.rs:201-251: the directives are handled; an error comes
\* back as vec![err]
HandleDirectives(ok) ==
    /\ rpc = "directives"
    /\ failures' = IF ok THEN << >> ELSE << 0 >>
    /\ rpc' = "reporting"
    /\ UNCHANGED << envvars, otherThanInstall, skipVerify, afile, how, rsummary, synced, printed, reported,
                    exitCode >>

\* main.rs:171-188: Ok is logged and main returns Ok(()); for Err(errors)
\* every error is printed with its number and main returns the error "could
\* not finish installation due to [n] errors", which ends the process with a
\* failure exit code
ReportAndExit ==
    /\ rpc = "reporting"
    /\ printed' = numbered_lines(failures)
    /\ IF failures = << >>
       THEN /\ exitCode' = 0
            /\ UNCHANGED reported
       ELSE /\ exitCode' = 1
            /\ reported' = Len(failures)
    /\ rpc' = "exited"
    /\ UNCHANGED << envvars, otherThanInstall, skipVerify, afile, how, rsummary, synced, failures >>

RNext ==
    \/ BuildSummaryUnchecked
    \/ \E i \in 1 .. Len(afile), fetched \in {"error", "wrong_hash", "valid"} : SyncArchive(i, fetched)
    \/ SyncDone
    \/ \E ok \in BOOLEAN : HandleDirectives(ok)
    \/ ReportAndExit

SpecInstall == RInit /\ [][RNext]_vars

-----------------------------------------------------------------------------
(* An ArchiveHashPath read from the manifest *)

\* most elements of a JSON array of the model
MaxArray == 3

\* the strings of the arrays: a hash, two entry paths, the empty string
JsonStrings == {<< "h" >>, << "a" >>, << "a", "\\", "b" >>, << >>}

\* archive_hash_path.rs:45-48: NonEmpty::<String>::deserialize refuses the
\* empty array; of any other the head is the source_hash and the tail, each
\* string wrapped as a MaybeWindowsPath, the path
deserialize(array) ==
    IF array = << >>
    THEN {}
    ELSE {[source_hash |-> Head(array), path |-> Tail(array)]}

JInit ==
    /\ EnvIdle
    /\ \E n \in 0 .. MaxArray : json \in [1 .. n -> JsonStrings]
    /\ jresult = "none"
    /\ ahp = {}
    /\ sjson = << >>
    /\ back = {}
    /\ DispatcherIdle
    /\ NestedIdle
    /\ PreheatIdle
    /\ ArchiveIdle
    /\ HandlerIdle
    /\ InstallIdle
    /\ ProgressIdle
    /\ WorkerIdle
    /\ CdnIdle

\* archive_hash_path.rs:40-50
Deserialize ==
    /\ jresult = "none"
    /\ ahp' = deserialize(json)
    /\ jresult' = IF ahp' = {} THEN "Err" ELSE "Ok"
    /\ UNCHANGED << envvars, otherThanHashPath, json, sjson, back >>

\* serde_json::to_string of a MaybeWindowsPath, a newtype of String: the JSON
\* text of the string, between quotes, with a backslash before every quote and
\* backslash
RECURSIVE to_string(_)
to_string(str) ==
    IF str = << >>
    THEN << "\"", "\"" >>
    ELSE LET rest == to_string(Tail(str))
             c == Head(str)
         IN  << "\"" >> \o (IF c \in {"\"", "\\"} THEN << "\\", c >> ELSE << c >>) \o Tail(rest)

\* archive_hash_path.rs:27-35: once(root_hash) chained with the to_string of
\* every path segment, collected into a Vec<String> that is serialized
serialize(v) == << v.source_hash >> \o [k \in 1 .. Len(v.path) |-> to_string(v.path[k])]

\* archive_hash_path.rs:22-38
Serialize ==
    /\ jresult = "Ok"
    /\ sjson = << >>
    /\ \E v \in ahp : sjson' = serialize(v)
    /\ UNCHANGED << envvars, otherThanHashPath, json, jresult, ahp, back >>

\* archive_hash_path.rs:40-50, on the serialized form
DeserializeSerialized ==
    /\ sjson # << >>
    /\ jresult = "Ok"
    /\ back' = deserialize(sjson)
    /\ jresult' = "RoundTrip"
    /\ UNCHANGED << envvars, otherThanHashPath, json, ahp, sjson >>

JNext ==
    \/ Deserialize
    \/ Serialize
    \/ DeserializeSerialized

SpecHashPath == JInit /\ [][JNext]_vars

-----------------------------------------------------------------------------
(* The progress map: hoola-progress *)

\* most spans started
MaxSpans == 3

\* most reads and writes made through hooks
MaxIo == 2

\* lib.rs:222: the span path of the communicator ProgressMap::new returns
Root == << >>

\* lib.rs:40-45, of a path that is not empty
parent(span) == SubSeq(span, 1, Len(span) - 1)

\* lib.rs:37-39
starts_with(span, other) == Len(span) >= Len(other) /\ SubSeq(span, 1, Len(other)) = other

\* lib.rs:27-28: derive(Ord) of SpanPath, the order of the slices of ids
RECURSIVE LexLess(_, _)
LexLess(a, b) ==
    IF a = << >> THEN b # << >>
    ELSE IF b = << >> THEN FALSE
    ELSE IF a[1] # b[1] THEN a[1] < b[1]
    ELSE LexLess(Tail(a), Tail(b))

\* lib.rs:293-294: self.progress.range(span..), the keys from span on in the
\* order of the map
RECURSIVE range_from(_, _)
range_from(K, span) ==
    LET from == {k \in K : k = span \/ LexLess(span, k)}
    IN  IF from = {} THEN << >>
        ELSE LET first == CHOOSE x \in from : \A y \in from \ {x} : LexLess(x, y)
             IN  << first >> \o range_from(from \ {first}, span)

\* lib.rs:292-310: with_descendants skips one key of the range and keeps the
\* keys that start with span; descendants skips one more; children keeps the
\* keys one id longer than span; has_children asks for the first of them
has_children(P, span) ==
    LET r == range_from(DOMAIN P, span)
    IN  /\ Len(r) >= 3
        /\ starts_with(r[2], span)
        /\ starts_with(r[3], span)
        /\ Len(r[3]) = Len(span) + 1

\* lib.rs:276-277
DELTA_NEW == [total |-> 1, current |-> 0]
DELTA_FINISHED == [total |-> 0, current |-> 1]

\* lib.rs:349-423: ProgressMap::handle; S holds progress, finished_pending
\* and the removed paths
RECURSIVE handle(_, _, _)
handle(S, span, update) ==
    LET P == S.progress
        toParent(T, delta) ==
            IF span = Root THEN T
            ELSE handle(T, parent(span), [type |-> "Update", delta |-> delta])
        insert(v) == [k \in DOMAIN P \cup {span} |-> IF k = span THEN v ELSE P[k]]
        remove(T) ==
            [T EXCEPT !.progress = [k \in DOMAIN T.progress \ {span} |-> T.progress[k]],
                      !.removed = IF span \in DOMAIN T.progress THEN @ \cup {span} ELSE @]
    IN  CASE update.type = "Start" ->
                IF span \notin DOMAIN P
                THEN toParent([S EXCEPT !.progress = insert(update.span)], DELTA_NEW)
                ELSE [S EXCEPT !.progress = insert([kind |-> update.span.kind,
                                                    total |-> P[span].total + update.span.total,
                                                    current |-> P[span].current + update.span.current])]
          [] update.type = "Update" ->
                IF span \notin DOMAIN P
                THEN toParent([S EXCEPT !.progress = insert([kind |-> "Iter",
                                                             total |-> update.delta.total,
                                                             current |-> update.delta.current])],
                              DELTA_NEW)
                ELSE LET v == [P[span] EXCEPT !.total = @ + update.delta.total,
                                              !.current = @ + update.delta.current]
                         T == [S EXCEPT !.progress = insert(v)]
                     IN  IF v.total = v.current /\ span \in S.finished_pending
                         THEN toParent([remove(T) EXCEPT !.finished_pending = @ \ {span}], DELTA_FINISHED)
                         ELSE T
          [] update.type = "Finish" ->
                IF has_children(P, span)
                THEN [S EXCEPT !.finished_pending = @ \cup {span}]
                ELSE toParent(remove(S), DELTA_FINISHED)

\* lib.rs:227-234: the message goes into the unbounded channel, whose
\* receiver hands it to handle; without a receiver unbounded_send fails and
\* the failure is traced
send(span, update) ==
    LET S == [progress |-> progress, finished_pending |-> finished_pending, removed |-> removed]
        T == IF rx THEN handle(S, span, update) ELSE S
    IN  /\ progress' = T.progress
        /\ finished_pending' = T.finished_pending
        /\ removed' = T.removed

\* the read or write fails when its message could not be delivered
IoHook_fails_undelivered(res, delivered) == IF delivered THEN res ELSE [ok |-> FALSE, n |-> 0]

\* hooks.rs:55-59, 93-97: an error of the inner read or write is returned by
\* `?`, a count is returned after the callback has been called with it
IoHook_io(res, delivered) == res

\* the expected size a Bytes span is started with
ExpectedBytes == 2

\* io::Result<usize> of the wrapped reader or writer
IoResults == {[ok |-> TRUE, n |-> 0], [ok |-> TRUE, n |-> 1], [ok |-> FALSE, n |-> 0]}

GInit ==
    /\ EnvIdle
    /\ progress = << >>
    /\ finished_pending = {}
    /\ removed = {}
    /\ live = {Root}
    /\ nextId = 1
    /\ kindOf = << >>
    /\ rx = TRUE
    /\ ioCount = 0
    /\ inner = [ok |-> FALSE, n |-> -1]
    /\ outer = [ok |-> FALSE, n |-> -1]
    /\ DispatcherIdle
    /\ NestedIdle
    /\ PreheatIdle
    /\ ArchiveIdle
    /\ HandlerIdle
    /\ InstallIdle
    /\ HashPathIdle
    /\ WorkerIdle
    /\ CdnIdle

\* lib.rs:237-252, 139-172: span_raw of a communicator: child starts a Parent
\* span with zero state, wrap_read and wrap_write a Bytes span with the
\* expected size; span.child() takes the next span id
SpanRaw(p, kind) ==
    /\ p \in live
    /\ IF p = Root THEN TRUE ELSE kindOf[p] = "Parent"
    /\ nextId <= MaxSpans
    /\ LET new == Append(p, nextId)
       IN  /\ live' = live \cup {new}
           /\ kindOf' = [k \in DOMAIN kindOf \cup {new} |-> IF k = new THEN kind ELSE kindOf[k]]
           /\ send(new, [type |-> "Start",
                         span |-> [kind |-> kind,
                                   total |-> IF kind = "Bytes" THEN ExpectedBytes ELSE 0,
                                   current |-> 0]])
    /\ nextId' = nextId + 1
    /\ UNCHANGED << envvars, otherThanProgress, rx, ioCount, inner, outer >>

\* hooks.rs:50-60, 88-102 with the callbacks of lib.rs:148-154, 165-171: a
\* read or write through the hook of a Bytes span
HookedIo(p, res) ==
    /\ p \in live
    /\ p # Root
    /\ kindOf[p] = "Bytes"
    /\ ioCount < MaxIo
    /\ ioCount' = ioCount + 1
    /\ inner' = res
    /\ outer' = IoHook_io(res, rx)
    /\ IF res.ok
       THEN send(p, [type |-> "Update", delta |-> [total |-> 0, current |-> res.n]])
       ELSE UNCHANGED << progress, finished_pending, removed >>
    /\ UNCHANGED << envvars, otherThanProgress, live, nextId, kindOf, rx >>

\* lib.rs:128-132: a communicator is dropped
DropCommunicator(p) ==
    /\ p \in live
    /\ live' = live \ {p}
    /\ send(p, [type |-> "Finish"])
    /\ UNCHANGED << envvars, otherThanProgress, nextId, kindOf, rx, ioCount, inner, outer >>

\* the Receiver ProgressMap::new returned is dropped
DropReceiver ==
    /\ rx
    /\ rx' = FALSE
    /\ UNCHANGED << envvars, otherThanProgress, progress, finished_pending, removed, live, nextId, kindOf,
                    ioCount, inner, outer >>

GNext ==
    \/ \E p \in live, kind \in {"Parent", "Bytes"} : SpanRaw(p, kind)
    \/ \E p \in live, res \in IoResults : HookedIo(p, res)
    \/ \E p \in live : DropCommunicator(p)
    \/ DropReceiver

SpecProgress == GInit /\ [][GNext]_vars

-----------------------------------------------------------------------------
(* spawn_rayon: a task on the worker pool, awaited through a oneshot channel *)

\* tasks handed to spawn_rayon
MaxTasks == 2

Tasks == 1 .. MaxTasks

WInit ==
    /\ EnvIdle
    /\ task = [t \in Tasks |-> "none"]
    /\ chan = [t \in Tasks |-> "empty"]
    /\ fut = [t \in Tasks |-> "none"]
    /\ deliveries = [t \in Tasks |-> 0]
    /\ aborted = FALSE
    /\ DispatcherIdle
    /\ NestedIdle
    /\ PreheatIdle
    /\ ArchiveIdle
    /\ HandlerIdle
    /\ InstallIdle
    /\ HashPathIdle
    /\ ProgressIdle
    /\ CdnIdle

\* utils.rs:138-147: the channel is made, the closure is queued on the pool
\* and the future over the receiver is returned
SpawnRayon(t) ==
    /\ ~aborted
    /\ task[t] = "none"
    /\ task' = [task EXCEPT ![t] = "queued"]
    /\ fut' = [fut EXCEPT ![t] = "pending"]
    /\ UNCHANGED << envvars, otherThanWorker, chan, deliveries, aborted >>

\* utils.rs:140-146: the pool runs the closure: task_fn returns and its result
\* is sent; send fails when the receiver is gone, which is logged
TaskReturns(t, res) ==
    /\ ~aborted
    /\ task[t] = "queued"
    /\ IF fut[t] = "dropped"
       THEN /\ task' = [task EXCEPT ![t] = "unsent"]
            /\ UNCHANGED chan
       ELSE /\ task' = [task EXCEPT ![t] = "sent"]
            /\ chan' = [chan EXCEPT ![t] = res]
    /\ UNCHANGED << envvars, otherThanWorker, fut, deliveries, aborted >>

\* utils.rs:142: task_fn panics; the unwinding drops tx and reaches the pool
TaskPanics(t) ==
    /\ ~aborted
    /\ task[t] = "queued"
    /\ task' = [task EXCEPT ![t] = "panicked"]
    /\ UNCHANGED << envvars, otherThanWorker, chan, fut, deliveries, aborted >>

\* utils.rs:140: rayon::spawn_fifo hands the panic of a job to the panic
\* handler of the pool; no handler is installed, and the pool aborts the
\* process
AbortOnPanic ==
    /\ ~aborted
    /\ \E t \in Tasks : task[t] = "panicked"
    /\ aborted' = TRUE
    /\ UNCHANGED << envvars, otherThanWorker, task, chan, fut, deliveries >>

\* utils.rs:147: the future is polled when the channel holds a value or its
\* sender is gone: it resolves with the value, or with the error "task
\* crashed?"
Poll(t) ==
    /\ ~aborted
    /\ fut[t] = "pending"
    /\ \/ /\ task[t] = "sent"
          /\ fut' = [fut EXCEPT ![t] = chan[t]]
          /\ chan' = [chan EXCEPT ![t] = "empty"]
          /\ deliveries' = [deliveries EXCEPT ![t] = @ + 1]
       \/ /\ task[t] = "panicked"
          /\ fut' = [fut EXCEPT ![t] = "crashed"]
          /\ UNCHANGED << chan, deliveries >>
    /\ UNCHANGED << envvars, otherThanWorker, task, aborted >>

\* the future is dropped before it resolved
DropFuture(t) ==
    /\ ~aborted
    /\ fut[t] = "pending"
    /\ fut' = [fut EXCEPT ![t] = "dropped"]
    /\ UNCHANGED << envvars, otherThanWorker, task, chan, deliveries, aborted >>

WNext ==
    \/ \E t \in Tasks : SpawnRayon(t)
    \/ \E t \in Tasks, res \in {"Ok", "Err"} : TaskReturns(t, res)
    \/ \E t \in Tasks : TaskPanics(t)
    \/ AbortOnPanic
    \/ \E t \in Tasks : Poll(t)
    \/ \E t \in Tasks : DropFuture(t)

SpecWorker == WInit /\ [][WNext]_vars

-----------------------------------------------------------------------------
(* download_wabbajack_cdn: a download in parts, merged into one file *)

\* parts of one download
MaxChunks == 3
\* parts downloaded at the same time
MaxConcurrency == 2

\* the parts are merged in the order their downloads completed in
keep_completion_order(collected) == collected

\* download_wabbajack_cdn.rs:77: files.sort_by_cached_key(|(idx, _)| *idx)
\* (the keys are the indices of enumerate, all different: the k-th of the
\* sorted list is the one with k - 1 smaller ones)
sort_by_cached_key(collected) ==
    LET keys == {collected[i] : i \in DOMAIN collected}
    IN  [k \in DOMAIN collected |->
            CHOOSE idx \in keys : Cardinality({other \in keys : other < idx}) = k - 1]

\* download_wabbajack_cdn.rs:25-45: the output file is created empty, the
\* source urls are fetched and enumerated
CInit ==
    /\ EnvIdle
    /\ chunk_count \in 0 .. MaxChunks
    /\ download_concurrency \in 1 .. MaxConcurrency
    /\ next_idx = 0
    /\ in_flight = {}
    /\ parts = << >>
    /\ completion = << >>
    /\ output_file = << >>
    /\ cdn_pc = "downloading"
    /\ DispatcherIdle
    /\ NestedIdle
    /\ PreheatIdle
    /\ ArchiveIdle
    /\ HandlerIdle
    /\ InstallIdle
    /\ HashPathIdle
    /\ ProgressIdle
    /\ WorkerIdle

\* download_wabbajack_cdn.rs:46-73: buffer_unordered takes the next part of
\* the enumerated stream while its window has room
StartPart ==
    /\ cdn_pc = "downloading"
    /\ next_idx < chunk_count
    /\ Cardinality(in_flight) < download_concurrency
    /\ in_flight' = in_flight \cup {next_idx}
    /\ next_idx' = next_idx + 1
    /\ UNCHANGED << envvars, otherThanCdn, chunk_count, download_concurrency, parts, completion, output_file, cdn_pc >>

\* download_wabbajack_cdn.rs:61-74: a part download of the window completes;
\* try_collect pushes (idx, output), or returns the first error and drops the
\* stream with the downloads still in its window
PartCompletes(idx, ok) ==
    /\ cdn_pc = "downloading"
    /\ idx \in in_flight
    /\ completion' = Append(completion, idx)
    /\ IF ok
       THEN /\ parts' = Append(parts, idx)
            /\ in_flight' = in_flight \ {idx}
            /\ UNCHANGED cdn_pc
       ELSE /\ cdn_pc' = "download_failed"
            /\ in_flight' = {}
            /\ UNCHANGED parts
    /\ UNCHANGED << envvars, otherThanCdn, chunk_count, download_concurrency, next_idx, output_file >>

\* download_wabbajack_cdn.rs:74-88: the stream has ended: the collected parts
\* are sorted by index and the output file is opened truncated
Collected ==
    /\ cdn_pc = "downloading"
    /\ next_idx = chunk_count
    /\ in_flight = {}
    /\ parts' = sort_by_cached_key(parts)
    /\ output_file' = << >>
    /\ cdn_pc' = "merging"
    /\ UNCHANGED << envvars, otherThanCdn, chunk_count, download_concurrency, next_idx, in_flight, completion >>

\* download_wabbajack_cdn.rs:90-100: the next part of the list is copied to
\* the end of the output file; an error of the open or the copy ends the merge
MergeChunk(ok) ==
    /\ cdn_pc = "merging"
    /\ Len(output_file) < Len(parts)
    /\ IF ok
       THEN /\ output_file' = Append(output_file, parts[Len(output_file) + 1])
            /\ UNCHANGED cdn_pc
       ELSE /\ cdn_pc' = "merge_failed"
            /\ UNCHANGED output_file
    /\ UNCHANGED << envvars, otherThanCdn, chunk_count, download_concurrency, next_idx, in_flight, parts, completion >>

\* download_wabbajack_cdn.rs:101-104: every part was copied; the path of the
\* output file is returned
Merged ==
    /\ cdn_pc = "merging"
    /\ Len(output_file) = Len(parts)
    /\ cdn_pc' = "done"
    /\ UNCHANGED << envvars, otherThanCdn, chunk_count, download_concurrency, next_idx, in_flight, parts, completion, output_file >>

CNext ==
    \/ StartPart
    \/ \E idx \in 0 .. MaxChunks - 1, ok \in BOOLEAN : PartCompletes(idx, ok)
    \/ Collected
    \/ \E ok \in BOOLEAN : MergeChunk(ok)
    \/ Merged

SpecCdn == CInit /\ [][CNext]_vars

Spec == Init /\ [][Next]_vars

-----------------------------------------------------------------------------
(* Properties *)

\* configured bound on open archives, directives.rs:158: concurrency() * 3
OpenArchiveBound(numCpus, debugBuild) == concurrency(numCpus, debugBuild) * 3

\* a handler that ran to its end, successfully or not
Finished(i) == st[i] \in {"ok", "err", "yielded"}

\* a handler that has been started
Started(i) == st[i] # "pending"

C2_OpenHandlesBounded == OpenHandles <= OpenArchiveBound(cpus, debug)

\* C3: when handle_directives has returned, every directive of the batch has
\* been executed to its end, whether others failed or not.
C3_EveryDirectiveExecuted == dpc = "returned" => \A i \in Directives : Finished(i)

\* C4: when handle_directives has returned, the returned collection holds
\* exactly the directives whose handler failed.
C4_AllFailuresReturned == dpc = "returned" => errors = {i \in Directives : st[i] = "err"}

\* C5: a CreateBSA directive has started only if every directive of a lower
\* priority tier has finished.
C5_BsaAfterLowerTiersFinished ==
    \A i \in Directives :
        (manifest[i] = "CreateBSA" /\ Started(i)) =>
            \A j \in Directives : priority(manifest[j]) < priority(manifest[i]) => Finished(j)

\* C6: a directive has been dispatched only if every directive with a smaller
\* priority key (InlineFile 10, FromArchive 11, PatchedFromArchive 12,
\* RemappedInlineFile 13, TransformedTexture 240, CreateBSA 250) has been
\* dispatched, whatever the manifest order.
C6_DispatchedInKeyOrder ==
    LET key == [k \in Kinds |->
                  CASE k = "InlineFile" -> 10
                    [] k = "FromArchive" -> 11
                    [] k = "PatchedFromArchive" -> 12
                    [] k = "RemappedInlineFile" -> 13
                    [] k = "TransformedTexture" -> 240
                    [] k = "CreateBSA" -> 250]
    IN  \A i, j \in Directives :
            (Started(i) /\ key[manifest[j]] < key[manifest[i]]) => Started(j)

C6_Witness ==
    \E i, j \in Directives :
        /\ i < j
        /\ priority(manifest[i]) > priority(manifest[j])
        /\ Started(i)
        /\ Started(j)

\* C7: never more than concurrency() handlers are in progress; concurrency()
\* is max(1, (cpus / 10) * 8 - 1) in a release build and 1 in a debug build,
\* where at most one handler runs at a time.
C7_BoundedHandlers ==
    /\ Cardinality(InProgress) <= concurrency(cpus, debug)
    /\ debug => Cardinality(InProgress) <= 1
    /\ (~debug /\ cpus < 10) => Cardinality(InProgress) <= 1
    /\ (~debug /\ cpus = 10) => Cardinality(InProgress) <= 7

C7_Witness ==
    /\ ~debug
    /\ Cardinality(InProgress) = concurrency(cpus, debug)
    /\ Cardinality(InProgress) > 1
    /\ ~StreamExhausted

\* C8: when the batch is done, every directive whose root hash is not in the
\* download summary has a failure of its own among the results, and there is
\* no single failure standing for the whole batch.
C8_FailurePerDirective ==
    npc = "done" =>
        /\ \A i \in NDirectives :
              ~Resolvable(ndirs[i]) => \E k \in 1 .. Len(out) : out[k].dir = i /\ ~out[k].ok
        /\ \A k \in 1 .. Len(out) : out[k].dir # 0

\* C9: every extraction temp file on disk belongs to a handle that is still
\* alive; a chunk that failed, a preheat that failed and a PreheatedArchive
\* that was dropped leave none of their temp files behind.
C9_NoTempFilesLeft ==
    /\ ppc \in {"failed", "dropped"} => disk = {}
    /\ \A c \in ChunkIds : cs[c] \in {"err", "skipped", "pending"} => FilesOf(c) = {}
    /\ \A f \in disk :
          \/ ppc = "chunks" /\ cs[f[1]] \in {"open", "ok"}
          \/ ppc = "collected" /\ \E p \in 1 .. npaths : paths[p] = f

C9_Witness ==
    /\ ppc = "failed"
    /\ \E c \in ChunkIds : cs[c] = "ok"
    /\ \E c \in ChunkIds : cs[c] = "err" /\ entry[c] >= 1 /\ entry[c] < Len(chunks[c])

\* C10 as stated: a preheated archive has been opened exactly once.
C10_OpenedOnce == ppc = "collected" => opens = 1

\* C10 amended: a preheated archive has been opened once to list its paths
\* and once more for each chunk of chunk_size listed paths; every listed path
\* has been extracted exactly once, through the handle of its chunk.
C10_OpenedPerChunk ==
    /\ opens <= 1 + Len(chunks)
    /\ ppc = "collected" =>
        /\ opens = 1 + Len(chunks)
        /\ Len(chunks) = (npaths + chunkSize - 1) \div chunkSize
        /\ \A p \in 1 .. npaths :
              /\ extracted[p] = 1
              /\ paths[p] \in disk
              /\ paths[p][2] = p
              /\ p \in SeqRange(chunks[paths[p][1]])

C10_Witness ==
    /\ ppc = "collected"
    /\ Len(chunks) >= 2
    /\ chunkSize >= 2

\* the entries of the archive that are equal to a path in lower case
InsensitiveMatches(path) ==
    {i \in 1 .. Len(listing) : to_lowercase(listing[i]) = to_lowercase(path)}

\* no two requests of the call name the same path in lower case
DistinctRequests ==
    \A j, k \in 1 .. Len(requested) :
        j # k => to_lowercase(requested[j]) # to_lowercase(requested[k])

\* C11: in a get_many_handles call on a 7z archive no block is decoded more
\* than once; when the call succeeds, each block that holds a requested entry
\* has been decoded exactly once and no other block at all; only requested
\* entries are ever written to a temp file, the others are drained.
C11_BlockDecodedOnce ==
    adapter = "sevenz" =>
        /\ \A b \in BlockIndices : decodes[b] <= 1
        /\ aresult = "Ok" =>
              \A b \in BlockIndices :
                  decodes[b] = (IF \E i \in Wanted : blockOf[i] = b THEN 1 ELSE 0)
        /\ written \subseteq Wanted
        /\ tempfiles \subseteq written
        /\ drained \cap written = {}

C11_Witness ==
    /\ adapter = "sevenz"
    /\ aresult = "Ok"
    /\ \E b \in BlockIndices :
          /\ Cardinality({i \in Wanted : blockOf[i] = b}) >= 2
          /\ \E i \in drained : blockOf[i] = b

C13_CaseInsensitiveFallback ==
    (apc # "start" /\ DistinctRequests) =>
        \A k \in 1 .. Len(requested) :
            (requested[k] \notin SeqRange(listing) /\ InsensitiveMatches(requested[k]) # {}) =>
                /\ failedAt # k
                /\ failedAt = 0 =>
                      /\ k \in warned
                      /\ \E n \in 1 .. Len(resolved) :
                            /\ resolved[n][1] = k
                            /\ resolved[n][2] \in InsensitiveMatches(requested[k])

\* C14: once the names are looked up, a requested path that is no entry of
\* the archive and equals more than one entry in lower case has made the
\* lookup fail; none of those entries was picked.
C14_AmbiguousIsError ==
    apc # "start" =>
        \A k \in 1 .. Len(requested) :
            (requested[k] \notin SeqRange(listing) /\ Cardinality(InsensitiveMatches(requested[k])) > 1) =>
                /\ failedAt # 0
                /\ aresult = "Err"

\* C15 as stated: an entry copied by FromArchive or PatchedFromArchive is
\* validated by size only when its extension is dds in any letter case, and
\* by size and hash otherwise.
C15_WhitelistSizeOnly ==
    (wroteDest /\ hkind \in {"FromArchive", "PatchedFromArchive"}) =>
        checks = (IF ext \in {<< "d", "d", "s" >>, << "D", "D", "S" >>} THEN {"size"} ELSE {"size", "hash"})

\* C15 amended: an entry copied by FromArchive is validated by size only when
\* the extension of its destination is dds in any letter case, and by size and
\* hash otherwise; an entry written by PatchedFromArchive is validated by size
\* and hash whatever its extension. The handler reports success only when the
\* validations it applied passed.
C15_WhitelistFromArchiveOnly ==
    /\ (wroteDest /\ hkind = "FromArchive") =>
          checks = (IF ext \in {<< "d", "d", "s" >>, << "D", "D", "S" >>} THEN {"size"} ELSE {"size", "hash"})
    /\ (wroteDest /\ hkind = "PatchedFromArchive") => checks = {"size", "hash"}
    /\ (hresult = "Ok" /\ hkind \in {"FromArchive", "PatchedFromArchive"}) =>
          /\ srcSizeOk
          /\ "hash" \in checks => srcHashOk

C15_Witness ==
    /\ hkind = "FromArchive"
    /\ ext = << "D", "D", "S" >>
    /\ hresult = "Ok"
    /\ ~srcHashOk
    /\ checks = {"size"}

\* C16: a handler of any kind that wrote bytes to the destination and
\* reported success has passed those bytes through size and hash validation,
\* and they have the declared size and hash.
C16_SuccessAfterValidation ==
    (hresult = "Ok" /\ wroteDest) =>
        /\ checks = {"size", "hash"}
        /\ srcSizeOk
        /\ srcHashOk

\* C20: while an entry is being extracted, no guard of the lock is alive.
C20_NoLockDuringExtraction == ~(lockHeld /\ io)

\* C17: when the install command has ended, its exit code is 0 exactly when
\* install_modlist returned no error; otherwise it is 1, every returned error
\* has been printed, in order and numbered from 1, and the number of errors
\* has been reported.
C17_FailuresReported ==
    rpc = "exited" =>
        /\ exitCode = 0 <=> failures = << >>
        /\ failures # << >> =>
              /\ exitCode = 1
              /\ reported = Len(failures)
              /\ Len(printed) = Len(failures)
              /\ \A k \in 1 .. Len(failures) : printed[k] = [number |-> k, failure |-> failures[k]]

C17_Witness ==
    /\ rpc = "exited"
    /\ Len(failures) >= 2
    /\ exitCode = 1

C19_PathNeverEmpty == \A v \in ahp : Len(v.path) >= 1


\* C21: once the preheat task is over and the handlers run, nothing more is
\* extracted and the preheated set does not change: the handlers only look
\* their files up in it.
C21_NoExtractionAfterPreheat ==
    [][npc = "iterating" => (store' = store /\ extracts' = extracts /\ late' = late)]_vars

\* C22: the serialized form of an ArchiveHashPath is the flat array of its
\* source_hash followed by its path segments as they are, and deserializing
\* it gives back the value.
C22_RoundTrip ==
    /\ sjson # << >> => \A v \in ahp : sjson = << v.source_hash >> \o v.path
    /\ jresult = "RoundTrip" => back = ahp

\* C23: a read or write through a progress hook returns what the wrapped
\* reader or writer returned, count or error, also when the progress message
\* could not be delivered.
C23_HookKeepsOutcome == outer = inner

C23_Witness ==
    /\ ~rx
    /\ inner.ok
    /\ inner.n = 1
    /\ outer = inner

\* C26: when every communicator has been dropped and every message handled,
\* progress and finished_pending are empty.
C26_MapEmptyAtEnd ==
    (rx /\ live = {}) => (DOMAIN progress = {} /\ finished_pending = {})

\* C27: a span whose Finish has been handled while a direct child of it is
\* unfinished and in the map is still in the map and in finished_pending.
C27_FinishedParentKept ==
    rx =>
        \A p \in (DOMAIN kindOf \cup {Root}) \ live :
            (\E c \in live : c # Root /\ parent(c) = p /\ c \in DOMAIN progress) =>
                (p \in DOMAIN progress /\ p \in finished_pending)

\* C28: every span of the map that was started as a Parent span has total
\* equal to the number of its direct children started and current equal to
\* the number of its direct children removed, with 0 <= current <= total.
C28_ParentCounts ==
    rx =>
        \A p \in DOMAIN progress :
            (p \in DOMAIN kindOf /\ kindOf[p] = "Parent") =>
                /\ progress[p].total = Cardinality({c \in DOMAIN kindOf : parent(c) = p})
                /\ progress[p].current = Cardinality({c \in removed : c # Root /\ parent(c) = p})
                /\ 0 <= progress[p].current
                /\ progress[p].current <= progress[p].total

\* C25: the future of a task resolves with the task's result at most once,
\* and when the process has ended, the future of a task that panicked, unless
\* it was dropped, has resolved with an error.
C25_ResultOnceOrError ==
    \A t \in DOMAIN task :
        /\ deliveries[t] <= 1
        /\ fut[t] \in {"Ok", "Err"} => (task[t] = "sent" /\ deliveries[t] = 1)
        /\ (aborted /\ task[t] = "panicked") => fut[t] \in {"crashed", "dropped"}

\* C30: the parts are written to the output file in ascending part index,
\* none twice, whatever order their downloads completed in; a download that
\* returns the output file has written every part; and when a part failed to
\* download, no part is in the output file.
C30_MergedInIndexOrder ==
    /\ \A i, j \in DOMAIN output_file : i < j => output_file[i] < output_file[j]
    /\ cdn_pc = "done" => output_file = [k \in 1 .. chunk_count |-> k - 1]
    /\ cdn_pc = "download_failed" => output_file = << >>

\* a download of several parts that completed out of index order and was
\* merged
C30_Witness ==
    /\ cdn_pc = "done"
    /\ Len(output_file) >= 2
    /\ completion # output_file

\* C29: while sync_downloads runs, the errors it has collected are exactly
\* the archives it dealt with that were neither verified nor fetched, each
\* once; when it is over it has dealt with every archive of the list,
\* whatever failed, and its list of errors is empty exactly when every
\* archive was verified or fetched.
C29_OneErrorPerFailedArchive ==
    /\ rpc = "syncing" =>
          /\ \A k \in DOMAIN failures : failures[k] \in synced
          /\ \A i \in synced :
                Cardinality({k \in DOMAIN failures : failures[k] = i})
                    = (IF how[i] \in {"verified", "fetched"} THEN 0 ELSE 1)
          /\ synced = DOMAIN afile =>
                (failures = << >> <=> \A i \in DOMAIN afile : how[i] \in {"verified", "fetched"})
    /\ (~skipVerify /\ rpc \in {"directives", "reporting", "exited"}) => synced = DOMAIN afile

\* two archives were dealt with: the first failed, the second was fetched
C29_Witness ==
    /\ rpc = "syncing"
    /\ synced = {1, 2}
    /\ failures = << 1 >>
    /\ how[2] = "fetched"

\* C24: a get_many_handles call on a 7z archive for paths that are all
\* entries of the listing, each asked for once (all of them, some or none):
\* the lookup of the names succeeds, the call does not fail before a block is
\* decoded (an error can only be one of the extraction itself: an I/O error
\* or a copy that ended with another size), the decoding of a block leaves
\* none of its requested entries out, and a call that returned Ok returned one
\* handle for each requested path and no other.
C24_SubsetSucceeds ==
    (adapter = "sevenz" /\ apc # "start" /\ DistinctRequests
        /\ \A k \in 1 .. Len(requested) : requested[k] \in SeqRange(listing)) =>
        /\ failedAt = 0
        /\ aresult = "Err" => cur > 0
        /\ (blockOpen /\ pos = Len(BlockEntries(groups[cur].block))) => pending = {}
        /\ aresult = "Ok" =>
              /\ Len(handles) = Len(requested)
              /\ \A k \in 1 .. Len(requested) :
                    Cardinality({n \in 1 .. Len(handles) :
                                    handles[n].req = k /\ listing[handles[n].entry] = requested[k]}) = 1

====
